---- MODULE Spec2Model ----
(***************************************************************************)
(* A model of the slotted B-tree leaf page of e-bin (src/src/btree).       *)
(*                                                                         *)
(* The page is modelled byte for byte: every offset 0..PAGE_SIZE-1 holds   *)
(* a byte.  The header, the key slots and the freeblocks                   *)
(* are read from and written to these bytes with the little-endian,        *)
(* packed layout of the zerocopy structs of the source.  Every operation   *)
(* of Node is an operator from a page to a result record                   *)
(*     [st |-> "ok" | "err" | "panic" | "hang", p |-> the page, ...]       *)
(* and every action applies one public operation as a whole.               *)
(*                                                                         *)
(* Rust gives two builds.  With debug assertions (the dev and test         *)
(* profile) debug_assert! and integer overflow panic; without them (the    *)
(* release profile) debug_assert! is compiled out and integer arithmetic   *)
(* wraps.  The variable debug_assertions fixes the build of a behaviour.   *)
(*                                                                         *)
(* Node::insert calls insert_key_at(idx, key, 0, offset, len) and          *)
(* write_freeblock(offset, next, size) while key.rs and freeblock.rs       *)
(* declare insert_key_at(&Key, idx) and write_freeblock(size, next,        *)
(* offset); read_key_at returns a pair in key.rs and is used as a          *)
(* reference in mod.rs.  The calls are bound to the parameters by their    *)
(* meaning (the slot built by Key::new, the freeblock's offset and size),  *)
(* which is the only reading under which the callers type-check.           *)
(***************************************************************************)
EXTENDS Integers, Sequences, FiniteSets, TLC

VARIABLES page, page_len, phase, debug_assertions, shadow, last, nops

vars == <<page, page_len, phase, debug_assertions, shadow, last, nops>>

---------------------------------------------------------------------------
(* Program constants *)

PAGE_SIZE == 4096

\* size_of::<Header>(): u8 + 4 * U16 + u8 + U32, all of alignment 1
HEADER_SIZE == 14

\* size_of::<Key>(): U64 + U32 + U16 + U16
KEY_SIZE == 16

\* size_of::<Freeblock>(): U16 + U16
FREEBLOCK_SIZE == 4

U16_MAX == 65535

U8_MAX == 255

\* NodeType::Leaf as u8 (NodeType::Internal is 0)
NODE_LEAF == 1

---------------------------------------------------------------------------
(* Bounds of the model *)

\* keys are drawn from 1..MaxKey
MaxKey == 4

\* number of insert, delete and defrag calls of one behaviour
MaxOps == 3

Keys == 1..MaxKey

\* The value lengths insert is called with.  4009 and 40 together leave 17
\* unallocated bytes; 41 and 44 are one byte and four bytes more than a
\* freeblock of 40 bytes holds; 65530 is a length whose sum with KEY_SIZE
\* does not fit 16 bits.
ValueLens == {0, 2, 40, 41, 44, 4009, 65530}

\* The page is kept in blocks of BLOCK bytes: byte o of the page is byte
\* o % BLOCK of block o \div BLOCK.
BLOCK == 4 * KEY_SIZE

Blocks == 0..((PAGE_SIZE - 1) \div BLOCK)

\* self.page[o]
Byte(p, o) == p[o \div BLOCK][o % BLOCK]

\* self.page[o] = x
SetByte(p, o, x) == [p EXCEPT ![o \div BLOCK][o % BLOCK] = x]

\* the offset of byte i of block b
OffsetOf(b, i) == b * BLOCK + i

---------------------------------------------------------------------------
(* Bytes and little-endian integers *)

\* byte i (0-based, i < 3) of the little-endian encoding of x < 2^24
LeByte(x, i) == IF i = 0 THEN x % 256 ELSE IF i = 1 THEN (x \div 256) % 256
                ELSE (x \div 65536) % 256

ReadU16(p, o) == Byte(p, o) + 256 * Byte(p, o + 1)

ReadU24(p, o) == Byte(p, o) + 256 * Byte(p, o + 1) + 65536 * Byte(p, o + 2)

\* A U32 is the pair of its upper and lower 16 bits and a U64 the triple of
\* its upper 16, middle 24 and lower 24 bits, most significant first, so
\* that no number of the model needs more than 31 bits.
U32(x) == <<0, x>>

ReadU32(p, o) == <<ReadU16(p, o + 2), ReadU16(p, o)>>

U32Byte(x, i) == IF i < 2 THEN LeByte(x[2], i) ELSE LeByte(x[1], i - 2)

U64(x) == <<0, 0, x>>

ReadU64(p, o) == <<ReadU16(p, o + 6), ReadU24(p, o + 3), ReadU24(p, o)>>

U64Byte(x, i) == IF i < 3 THEN LeByte(x[3], i)
                 ELSE IF i < 6 THEN LeByte(x[2], i - 3)
                 ELSE LeByte(x[1], i - 6)

\* a < b on u64
U64Less(a, b) ==
    \/ a[1] < b[1]
    \/ a[1] = b[1] /\ a[2] < b[2]
    \/ a[1] = b[1] /\ a[2] = b[2] /\ a[3] < b[3]

WriteU16(p, o, x) == SetByte(SetByte(p, o, x % 256), o + 1, (x \div 256) % 256)

\* byte i (0-based) of the value insert is called with: fill is its first
\* byte, and the bytes differ from position to position.
ValueByte(fill, i) == (fill + 3 * i) % 256

Value(fill, len) == [i \in 1..len |-> ValueByte(fill, i - 1)]

\* copy_from_slice and copy_within: n bytes of the page p0, from offset src
\* on, stored in the page p at offset dest.  Short runs are stored byte by
\* byte, long ones in one step.
ShortRun == 64

RECURSIVE CopyBytesFrom(_, _, _, _, _, _)
CopyBytesFrom(p, p0, src, dest, n, i) ==
    IF i >= n THEN p
    ELSE CopyBytesFrom(SetByte(p, dest + i, Byte(p0, src + i)), p0, src, dest, n, i + 1)

CopyBytes(p, p0, src, dest, n) ==
    IF n <= ShortRun THEN CopyBytesFrom(p, p0, src, dest, n, 0)
    ELSE [b \in Blocks |-> [i \in 0..(BLOCK - 1) |->
             LET o == OffsetOf(b, i)
             IN  IF o >= dest /\ o < dest + n THEN Byte(p0, src + (o - dest))
                 ELSE Byte(p, o)]]

\* copy_from_slice of the value's bytes at offset o
RECURSIVE WriteValueFrom(_, _, _, _, _)
WriteValueFrom(p, o, fill, len, i) ==
    IF i >= len THEN p
    ELSE WriteValueFrom(SetByte(p, o + i, ValueByte(fill, i)), o, fill, len, i + 1)

WriteValue(p, o, fill, len) ==
    IF len <= ShortRun THEN WriteValueFrom(p, o, fill, len, 0)
    ELSE [b \in Blocks |-> [i \in 0..(BLOCK - 1) |->
             LET at == OffsetOf(b, i)
             IN  IF at >= o /\ at < o + len THEN ValueByte(fill, at - o)
                 ELSE Byte(p, at)]]

\* &self.page[offset..(offset + len)] as a sequence of bytes
Slice(p, o, len) == [i \in 1..len |-> Byte(p, o + i - 1)]

\* get_page_slice / get_mut_page_slice: the debug assertion, and in a
\* release build the bounds check of the slice expression
SliceOk(o, len) == o >= 0 /\ len >= 0 /\ o + len <= PAGE_SIZE

---------------------------------------------------------------------------
(* Header (header.rs): the struct at offset 0 *)

OFF_NODE_TYPE == 0

OFF_NUM_KEYS == 1

OFF_FREE_START == 3

OFF_FREE_END == 5

OFF_FIRST_FREEBLOCK == 7

OFF_FRAGMENTED_BYTES == 9

OFF_RIGHTMOST_CHILD_PAGE == 10

\* Header::intepret_from_bytes / intepret_mut_from_bytes: try_transmute
\* accepts the 14 bytes iff the first one is a NodeType (0 or 1)
HeaderValid(p) == Byte(p, OFF_NODE_TYPE) \in {0, 1}

num_keys(p) == ReadU16(p, OFF_NUM_KEYS)

free_start(p) == ReadU16(p, OFF_FREE_START)

free_end(p) == ReadU16(p, OFF_FREE_END)

first_freeblock(p) == ReadU16(p, OFF_FIRST_FREEBLOCK)

fragmented_bytes(p) == Byte(p, OFF_FRAGMENTED_BYTES)

rightmost_child_page(p) == ReadU32(p, OFF_RIGHTMOST_CHILD_PAGE)

\* u8::saturating_add
SaturatingAddU8(a, b) == IF a + b > U8_MAX THEN U8_MAX ELSE a + b

\* The element of a set of one element.  Only({F(x) : x \in {e}}) is F
\* applied to the value of e: x names the value, which is computed once.
Only(S) == CHOOSE y \in S : TRUE

\* results of the operations
Ok(p) == [st |-> "ok", p |-> p]

Fail(st, p) == [st |-> st, p |-> p]

\* u16 arithmetic: a panic with overflow checks, a wrap without
Wrap16(x) == x % 65536

Overflows16(x) == x < 0 \/ x > U16_MAX

---------------------------------------------------------------------------
(* Node::new, Node::load (mod.rs) *)

\* new without the assignment to free_start
NewLeavesFreeStart(p, len, dbg) ==
    IF dbg /\ len # PAGE_SIZE THEN Fail("panic", p)
    ELSE IF len < HEADER_SIZE THEN Fail("panic", p)
    ELSE IF ~HeaderValid(p) THEN Fail("err", p)
    ELSE Only({Only({Ok(WriteU16(WriteU16(p2, OFF_RIGHTMOST_CHILD_PAGE, 0),
                                 OFF_RIGHTMOST_CHILD_PAGE + 2, 0))
                     : p2 \in {SetByte(WriteU16(WriteU16(p1, OFF_FREE_END, PAGE_SIZE),
                                                OFF_FIRST_FREEBLOCK, 0),
                                       OFF_FRAGMENTED_BYTES, 0)}})
               : p1 \in {WriteU16(SetByte(p, OFF_NODE_TYPE, NODE_LEAF), OFF_NUM_KEYS, 0)}})

\* new(page) with page.len() = len.  The length is checked by a debug
\* assertion only; the header is written through mutate_header, which takes
\* the first HEADER_SIZE bytes of the buffer and fails when the first byte is
\* no NodeType
new(p, len, dbg) ==
    IF dbg /\ len # PAGE_SIZE THEN Fail("panic", p)
    ELSE IF len < HEADER_SIZE THEN Fail("panic", p)
    ELSE IF ~HeaderValid(p) THEN Fail("err", p)
    ELSE LET p1 == SetByte(p, OFF_NODE_TYPE, NODE_LEAF)
             p2 == WriteU16(p1, OFF_NUM_KEYS, 0)
             p3 == WriteU16(p2, OFF_FREE_START, HEADER_SIZE)
             p4 == WriteU16(p3, OFF_FREE_END, PAGE_SIZE)
             p5 == WriteU16(p4, OFF_FIRST_FREEBLOCK, 0)
             p6 == SetByte(p5, OFF_FRAGMENTED_BYTES, 0)
         IN  Ok(WriteU16(WriteU16(p6, OFF_RIGHTMOST_CHILD_PAGE, 0),
                         OFF_RIGHTMOST_CHILD_PAGE + 2, 0))

\* load wraps the buffer and neither reads nor writes it; the length is
\* checked by a debug assertion only
load(p, len, dbg) == IF dbg /\ len # PAGE_SIZE THEN Fail("panic", p) ELSE Ok(p)

---------------------------------------------------------------------------
(* Key slots (key.rs) *)

OFF_KEY_LEFT_CHILD == 8

OFF_KEY_VALUE_OFFSET == 12

OFF_KEY_VALUE_LEN == 14

\* get_key_pos: HEADER_SIZE + KEY_SIZE * index in u16
get_key_pos(index) == Wrap16(HEADER_SIZE + KEY_SIZE * index)

KeyPosOverflows(index) == Overflows16(HEADER_SIZE + KEY_SIZE * index)

\* Key::new
Key(key, left_child_page, value_offset, value_len) ==
    [key |-> key, left_child_page |-> left_child_page,
     value_offset |-> value_offset, value_len |-> value_len]

\* Key::as_bytes: byte i (0-based) of the 16 bytes of a slot
KeyByte(k, i) ==
    IF i < OFF_KEY_LEFT_CHILD THEN U64Byte(k.key, i)
    ELSE IF i < OFF_KEY_VALUE_OFFSET THEN U32Byte(k.left_child_page, i - OFF_KEY_LEFT_CHILD)
    ELSE IF i < OFF_KEY_VALUE_LEN THEN LeByte(k.value_offset, i - OFF_KEY_VALUE_OFFSET)
    ELSE LeByte(k.value_len, i - OFF_KEY_VALUE_LEN)

\* the slot stored at byte position pos
KeyAt(p, pos) ==
    Key(ReadU64(p, pos), ReadU32(p, pos + OFF_KEY_LEFT_CHILD),
        ReadU16(p, pos + OFF_KEY_VALUE_OFFSET), ReadU16(p, pos + OFF_KEY_VALUE_LEN))

\* read_key_at / mut_key_at can be served: the position is computed without
\* overflow (or the build wraps) and the 16 bytes lie in the page
KeyReadable(index, dbg) ==
    /\ ~(dbg /\ KeyPosOverflows(index))
    /\ SliceOk(get_key_pos(index), KEY_SIZE)

read_key_at(p, index) == KeyAt(p, get_key_pos(index))

\* a search that takes high = mid - 1 for the upper bound, which is
\* exclusive: the slot below mid is never looked at
RECURSIVE SearchDroppingSlot(_, _, _, _, _)
SearchDroppingSlot(p, key, low, high, dbg) ==
    IF low >= high THEN [st |-> "ok", idx |-> low, found |-> FALSE]
    ELSE LET mid == (low + high) \div 2
         IN  IF ~KeyReadable(mid, dbg) THEN [st |-> "panic", idx |-> 0, found |-> FALSE]
             ELSE LET current_key == read_key_at(p, mid).key
                  IN  IF current_key = key THEN [st |-> "ok", idx |-> mid, found |-> TRUE]
                      ELSE IF U64Less(current_key, key)
                           THEN SearchDroppingSlot(p, key, mid + 1, high, dbg)
                           ELSE SearchDroppingSlot(p, key, low, mid - 1, dbg)

\* find_le_key_idx: binary search over [0, num_keys)
RECURSIVE BinarySearch(_, _, _, _, _)
BinarySearch(p, key, low, high, dbg) ==
    IF low >= high THEN [st |-> "ok", idx |-> low, found |-> FALSE]
    ELSE IF dbg /\ Overflows16(low + high) THEN [st |-> "panic", idx |-> 0, found |-> FALSE]
    ELSE LET mid == Wrap16(low + high) \div 2
         IN  IF ~KeyReadable(mid, dbg) THEN [st |-> "panic", idx |-> 0, found |-> FALSE]
             ELSE LET current_key == read_key_at(p, mid).key
                  IN  IF current_key = key THEN [st |-> "ok", idx |-> mid, found |-> TRUE]
                      ELSE IF U64Less(current_key, key)
                           THEN BinarySearch(p, key, mid + 1, high, dbg)
                           ELSE BinarySearch(p, key, low, mid, dbg)

find_le_key_idx(p, key, dbg) ==
    IF ~HeaderValid(p) THEN [st |-> "err", idx |-> 0, found |-> FALSE]
    ELSE IF num_keys(p) = 0 THEN [st |-> "ok", idx |-> 0, found |-> FALSE]
    ELSE BinarySearch(p, key, 0, num_keys(p), dbg)

---------------------------------------------------------------------------
(* Space accounting (mod.rs) *)

\* unallocated_space: free_end - free_start in u16
unallocated_space(p, dbg) ==
    IF ~HeaderValid(p) THEN [st |-> "err", v |-> 0]
    ELSE IF dbg /\ free_end(p) < free_start(p) THEN [st |-> "panic", v |-> 0]
    ELSE [st |-> "ok", v |-> Wrap16(free_end(p) - free_start(p))]

\* read_freeblock / mut_freeblock can be served at this offset
FreeblockReadable(o) == SliceOk(o, FREEBLOCK_SIZE)

fb_next(p, o) == ReadU16(p, o)

fb_size(p, o) == ReadU16(p, o + 2)

\* the loop of free_space: it sums the sizes along the chain.  A chain that
\* runs in a cycle never ends the loop; fuel counts the offsets it can visit
\* before it has visited one twice.
RECURSIVE FreeSpaceLoop(_, _, _, _, _)
FreeSpaceLoop(p, freeblock_offset, total_space, dbg, fuel) ==
    IF freeblock_offset = 0 THEN [st |-> "ok", v |-> total_space]
    ELSE IF ~FreeblockReadable(freeblock_offset) THEN [st |-> "panic", v |-> 0]
    ELSE IF fuel = 0 THEN [st |-> "hang", v |-> 0]
    ELSE LET sum == total_space + fb_size(p, freeblock_offset)
         IN  IF dbg /\ Overflows16(sum) THEN [st |-> "panic", v |-> 0]
             ELSE FreeSpaceLoop(p, fb_next(p, freeblock_offset), Wrap16(sum), dbg, fuel - 1)

free_space(p, dbg) ==
    LET u == unallocated_space(p, dbg)
    IN  IF u.st # "ok" THEN u
        ELSE IF dbg /\ Overflows16(u.v + fragmented_bytes(p)) THEN [st |-> "panic", v |-> 0]
        ELSE FreeSpaceLoop(p, first_freeblock(p), Wrap16(u.v + fragmented_bytes(p)),
                           dbg, PAGE_SIZE)

---------------------------------------------------------------------------
(* Slot insertion and removal (key.rs) *)

\* self.page.copy_within(src_start..src_end, dest): memmove
CopyWithinOk(src_start, src_end, dest) ==
    /\ src_start <= src_end
    /\ src_end <= PAGE_SIZE
    /\ dest + (src_end - src_start) <= PAGE_SIZE

CopyWithin(p, src_start, src_end, dest) ==
    CopyBytes(p, p, src_start, dest, src_end - src_start)

\* copy_from_slice of the 16 bytes of a slot at pos
RECURSIVE WriteKeyFrom(_, _, _, _)
WriteKeyFrom(p, pos, k, i) ==
    IF i >= KEY_SIZE THEN p
    ELSE WriteKeyFrom(SetByte(p, pos + i, KeyByte(k, i)), pos, k, i + 1)

WriteKey(p, pos, k) == WriteKeyFrom(p, pos, k, 0)

insert_key_at(p, k, idx, dbg) ==
    LET u == unallocated_space(p, dbg)
        keys_end == free_start(p)
        pos == get_key_pos(idx)
    IN  IF dbg /\ (u.st # "ok" \/ u.v < KEY_SIZE) THEN Fail("panic", p)
        ELSE IF ~HeaderValid(p) THEN Fail("err", p)
        ELSE IF dbg /\ (KeyPosOverflows(idx) \/ Overflows16(pos + KEY_SIZE)) THEN Fail("panic", p)
        ELSE IF ~CopyWithinOk(pos, keys_end, Wrap16(pos + KEY_SIZE)) THEN Fail("panic", p)
        ELSE Only({
               IF ~SliceOk(pos, KEY_SIZE) THEN Fail("panic", p1)
               ELSE Only({
                      IF ~HeaderValid(p2) THEN Fail("err", p2)
                      ELSE IF dbg /\ Overflows16(free_start(p2) + KEY_SIZE)
                      THEN Fail("panic", p2)
                      ELSE Only({
                             IF dbg /\ Overflows16(num_keys(p3) + 1) THEN Fail("panic", p3)
                             ELSE Ok(WriteU16(p3, OFF_NUM_KEYS, Wrap16(num_keys(p3) + 1)))
                           : p3 \in {WriteU16(p2, OFF_FREE_START,
                                              Wrap16(free_start(p2) + KEY_SIZE))}})
                    : p2 \in {WriteKey(p1, pos, k)}})
             : p1 \in {CopyWithin(p, pos, keys_end, Wrap16(pos + KEY_SIZE))}})

\* pop_key_at: the result carries the removed slot as key
pop_key_at(p, idx, dbg) ==
    LET key_pos == get_key_pos(idx)
        none == Key(U64(0), U32(0), 0, 0)
    IN  IF dbg /\ (KeyPosOverflows(idx) \/ ~HeaderValid(p) \/ ~(key_pos < free_start(p)))
        THEN [st |-> "panic", p |-> p, key |-> none]
        ELSE IF ~SliceOk(key_pos, KEY_SIZE) THEN [st |-> "panic", p |-> p, key |-> none]
        ELSE IF ~HeaderValid(p) THEN [st |-> "err", p |-> p, key |-> none]
        ELSE LET key == KeyAt(p, key_pos)
                 keys_end == free_start(p)
             IN  IF dbg /\ Overflows16(key_pos + KEY_SIZE)
                 THEN [st |-> "panic", p |-> p, key |-> none]
                 ELSE IF ~CopyWithinOk(Wrap16(key_pos + KEY_SIZE), keys_end, key_pos)
                 THEN [st |-> "panic", p |-> p, key |-> none]
                 ELSE Only({
                        IF ~HeaderValid(p1) THEN [st |-> "err", p |-> p1, key |-> none]
                        ELSE IF dbg /\ (free_start(p1) < KEY_SIZE \/ num_keys(p1) < 1)
                        THEN [st |-> "panic", p |-> p1, key |-> none]
                        ELSE Only({
                               [st |-> "ok",
                                p |-> WriteU16(p2, OFF_NUM_KEYS, Wrap16(num_keys(p2) - 1)),
                                key |-> key]
                             : p2 \in {WriteU16(p1, OFF_FREE_START,
                                                Wrap16(free_start(p1) - KEY_SIZE))}})
                      : p1 \in {CopyWithin(p, Wrap16(key_pos + KEY_SIZE), keys_end, key_pos)}})

---------------------------------------------------------------------------
(* Freeblocks (freeblock.rs) *)

\* write_freeblock(size, next_freeblock, offset): the debug assertion reads
\* the header with unwrap
write_freeblock(p, size, next_freeblock, offset, dbg) ==
    IF dbg /\ (~HeaderValid(p) \/ offset < free_start(p)) THEN Fail("panic", p)
    ELSE IF ~SliceOk(offset, FREEBLOCK_SIZE) THEN Fail("panic", p)
    ELSE Ok(WriteU16(WriteU16(p, offset, next_freeblock), offset + 2, size))

\* mut_freeblock(prev)?.next_freeblock.set(next)
SetFreeblockNext(p, prev, next) ==
    IF ~FreeblockReadable(prev) THEN Fail("panic", p)
    ELSE Ok(WriteU16(p, prev, next))

\* the patch of the predecessor that insert and delete_at_idx make: the
\* previous freeblock's next, or the header's first_freeblock
PatchPredecessor(p, prev_freeblock_offset, next) ==
    IF prev_freeblock_offset # 0
    THEN SetFreeblockNext(p, prev_freeblock_offset, next)
    ELSE IF ~HeaderValid(p) THEN Fail("err", p)
    ELSE Ok(WriteU16(p, OFF_FIRST_FREEBLOCK, next))

---------------------------------------------------------------------------
(* Node::get (mod.rs) *)

NoValue == <<>>

get(p, key, dbg) ==
    Only({IF f.st # "ok" THEN [st |-> f.st, found |-> FALSE, value |-> NoValue]
          ELSE IF ~f.found THEN [st |-> "ok", found |-> FALSE, value |-> NoValue]
          ELSE LET k == read_key_at(p, f.idx)
               IN  IF ~SliceOk(k.value_offset, k.value_len)
                   THEN [st |-> "panic", found |-> FALSE, value |-> NoValue]
                   ELSE [st |-> "ok", found |-> TRUE,
                         value |-> Slice(p, k.value_offset, k.value_len)]
          : f \in {find_le_key_idx(p, U64(key), dbg)}})

---------------------------------------------------------------------------
(* Node::prepend_value (mod.rs) *)

\* the result carries the offset of the value
prepend_value(p, fill, len, dbg) ==
    LET u == unallocated_space(p, dbg)
        new_free_end == free_end(p) - len
    IN  IF dbg /\ u.st # "ok" THEN [st |-> u.st, p |-> p, offset |-> 0]
        ELSE IF dbg /\ u.v < len THEN [st |-> "panic", p |-> p, offset |-> 0]
        ELSE IF ~HeaderValid(p) THEN [st |-> "err", p |-> p, offset |-> 0]
        ELSE IF new_free_end < 0 \/ ~SliceOk(new_free_end, len)
             THEN [st |-> "panic", p |-> p, offset |-> 0]
        ELSE Only({
               IF ~HeaderValid(p1) THEN [st |-> "err", p |-> p1, offset |-> 0]
               ELSE [st |-> "ok", p |-> WriteU16(p1, OFF_FREE_END, new_free_end),
                     offset |-> new_free_end]
             : p1 \in {WriteValue(p, new_free_end, fill, len)}})

---------------------------------------------------------------------------
(* Node::defrag (mod.rs) *)

\* key_infos: (old_offset, val_len) of the slots 0..n-1, in slot order
RECURSIVE KeyInfos(_, _, _)
KeyInfos(p, i, n) ==
    IF i >= n THEN <<>>
    ELSE LET k == read_key_at(p, i)
         IN  <<[old_offset |-> k.value_offset, val_len |-> k.value_len]>>
             \o KeyInfos(p, i + 1, n)

RECURSIVE TotalUsed(_, _)
TotalUsed(infos, i) ==
    IF i > Len(infos) THEN 0 ELSE infos[i].val_len + TotalUsed(infos, i + 1)

\* the two copies through the temporary buffer: the values of the page p0,
\* one after the other in slot order, stored from pos on
RECURSIVE PackValues(_, _, _, _, _)
PackValues(p, p0, infos, i, pos) ==
    IF i > Len(infos) THEN p
    ELSE Only({PackValues(q, p0, infos, i + 1, pos + infos[i].val_len)
               : q \in {CopyBytes(p, p0, infos[i].old_offset, pos, infos[i].val_len)}})

\* the loop that stores the new value_offset of every slot
RECURSIVE RewriteOffsets(_, _, _, _)
RewriteOffsets(p, infos, i, pos) ==
    IF i > Len(infos) THEN p
    ELSE Only({RewriteOffsets(q, infos, i + 1, pos + infos[i].val_len)
               : q \in {WriteU16(p, get_key_pos(i - 1) + OFF_KEY_VALUE_OFFSET, Wrap16(pos))}})

\* lines 113-138, with the slots' offsets and lengths in infos
DefragWith(p, infos, dbg) ==
    LET n == Len(infos)
        total_used == TotalUsed(infos, 1)
        new_free_end == PAGE_SIZE - total_used
    IN  IF \E i \in 1..n : ~SliceOk(infos[i].old_offset, infos[i].val_len)
        THEN Fail("panic", p)
        ELSE IF new_free_end < 0 THEN Fail("panic", p)
        ELSE Only({
               IF ~HeaderValid(p2) THEN Fail("err", p2)
               ELSE LET p3 == WriteU16(p2, OFF_FREE_END, new_free_end)
                        p4 == WriteU16(p3, OFF_FIRST_FREEBLOCK, 0)
                    IN  Ok(SetByte(p4, OFF_FRAGMENTED_BYTES, 0))
             : p2 \in {RewriteOffsets(PackValues(p, p, infos, 1, new_free_end),
                                      infos, 1, new_free_end)}})

defrag(p, dbg) ==
    IF ~HeaderValid(p) THEN Fail("err", p)
    ELSE IF \E i \in 0..(num_keys(p) - 1) : ~KeyReadable(i, dbg) THEN Fail("panic", p)
    ELSE Only({DefragWith(p, infos, dbg) : infos \in {KeyInfos(p, 0, num_keys(p))}})

---------------------------------------------------------------------------
(* Node::insert (mod.rs) *)

\* results of insert: res is "None" (Ok(None): the pair was stored),
\* "NotEnoughSpace" (with required and actual) or "-" (no result: st says
\* why); path names the branch that stored the value
InsertResult(st, p, res, path, required, actual) ==
    [st |-> st, p |-> p, res |-> res, path |-> path,
     required |-> required, actual |-> actual]

\* the condition of the fast path, lines 151 and 235
FastPathFits(unallocated, need) == unallocated > need

\* the end of the three storing branches: the value is at offset, the slot
\* is inserted at key_idx
StoreKey(p, key_idx, key, offset, value_len, path, dbg) ==
    Only({InsertResult(r.st, r.p, IF r.st = "ok" THEN "None" ELSE "-", path, 0, 0)
          : r \in {insert_key_at(p, Key(U64(key), U32(0), offset, value_len), key_idx, dbg)}})

\* lines 152-154 and 236-238: prepend the value, insert the slot
StoreAtFreeEnd(p, key_idx, key, fill, len, value_len, path, dbg) ==
    Only({IF v.st # "ok" THEN InsertResult(v.st, v.p, "-", path, 0, 0)
          ELSE StoreKey(v.p, key_idx, key, v.offset, value_len, path, dbg)
          : v \in {prepend_value(p, fill, len, dbg)}})

\* lines 178-218: the chosen freeblock leaves the chain, or its rest stays
LinkRest(p, prev, chosen_offset, freeblock_size, freeblock_next, value_len, dbg) ==
    LET remaining_size == freeblock_size - value_len
        new_freeblock_offset == chosen_offset + value_len
    IN  IF freeblock_size = value_len THEN PatchPredecessor(p, prev, freeblock_next)
        ELSE IF remaining_size < FREEBLOCK_SIZE
        THEN IF ~HeaderValid(p) THEN Fail("err", p)
             ELSE Only({PatchPredecessor(q, prev, freeblock_next)
                        : q \in {SetByte(p, OFF_FRAGMENTED_BYTES,
                                         SaturatingAddU8(fragmented_bytes(p), remaining_size))}})
        ELSE IF dbg /\ Overflows16(new_freeblock_offset) THEN Fail("panic", p)
        ELSE Only({IF w.st # "ok" THEN w
                   ELSE PatchPredecessor(w.p, prev, Wrap16(new_freeblock_offset))
                   : w \in {write_freeblock(p, remaining_size, freeblock_next,
                                            Wrap16(new_freeblock_offset), dbg)}})

\* lines 178-230: the freeblock at chosen_offset takes the value
UseFreeblock(p, prev, chosen_offset, freeblock_size, freeblock_next, key_idx, key, fill, len, value_len, dbg) ==
    Only({IF linked.st # "ok" THEN InsertResult(linked.st, linked.p, "-", "freeblock", 0, 0)
          ELSE IF ~SliceOk(chosen_offset, len)
          THEN InsertResult("panic", linked.p, "-", "freeblock", 0, 0)
          ELSE Only({StoreKey(q, key_idx, key, chosen_offset, value_len, "freeblock", dbg)
                     : q \in {WriteValue(linked.p, chosen_offset, fill, len)}})
          : linked \in {LinkRest(p, prev, chosen_offset, freeblock_size, freeblock_next,
                                 value_len, dbg)}})

\* lines 233-241: no freeblock took the value
DefragAndRetry(p, key_idx, key, fill, len, value_len, need, dbg) ==
    Only({IF d.st # "ok" THEN InsertResult(d.st, d.p, "-", "defrag", 0, 0)
          ELSE LET u == unallocated_space(d.p, dbg)
               IN  IF u.st # "ok" THEN InsertResult(u.st, d.p, "-", "defrag", 0, 0)
                   ELSE IF FastPathFits(u.v, need)
                   THEN StoreAtFreeEnd(d.p, key_idx, key, fill, len, value_len, "defrag", dbg)
                   ELSE InsertResult("panic", d.p, "-", "defrag", 0, 0)
          : d \in {defrag(p, dbg)}})

\* lines 164-231: the first freeblock of size >= value_len takes the value
RECURSIVE FreeblockLoop(_, _, _, _, _, _, _, _, _, _, _)
FreeblockLoop(p, prev, current, key_idx, key, fill, len, value_len, need, dbg, fuel) ==
    IF current = 0
    THEN DefragAndRetry(p, key_idx, key, fill, len, value_len, need, dbg)
    ELSE IF ~FreeblockReadable(current)
    THEN InsertResult("panic", p, "-", "freeblock", 0, 0)
    ELSE IF fuel = 0 THEN InsertResult("hang", p, "-", "freeblock", 0, 0)
    ELSE IF fb_size(p, current) < value_len
    THEN Only({FreeblockLoop(p, current, next, key_idx, key, fill, len, value_len, need,
                             dbg, fuel - 1)
               : next \in {fb_next(p, current)}})
    ELSE UseFreeblock(p, prev, current, fb_size(p, current), fb_next(p, current),
                      key_idx, key, fill, len, value_len, dbg)

\* lines 151-241, with the insertion index key_idx and the unallocated space
InsertAt(p, key_idx, unallocated, key, fill, len, value_len, need, dbg) ==
    IF FastPathFits(unallocated, need)
    THEN StoreAtFreeEnd(p, key_idx, key, fill, len, value_len, "fast", dbg)
    ELSE Only({IF fs.st # "ok" THEN InsertResult(fs.st, p, "-", "-", 0, 0)
               ELSE IF fs.v < need
               THEN InsertResult("ok", p, "NotEnoughSpace", "-", need, fs.v)
               ELSE FreeblockLoop(p, 0, first_freeblock(p), key_idx, key, fill, len,
                                  value_len, need, dbg, PAGE_SIZE)
               : fs \in {free_space(p, dbg)}})

insert(p, key, fill, len, dbg) ==
    IF dbg /\ ~(len < U16_MAX) THEN InsertResult("panic", p, "-", "-", 0, 0)
    ELSE Only({IF f.st # "ok" THEN InsertResult(f.st, p, "-", "-", 0, 0)
               ELSE IF f.found THEN InsertResult("panic", p, "-", "replace", 0, 0)
               ELSE Only({IF u.st # "ok" THEN InsertResult(u.st, p, "-", "-", 0, 0)
                          ELSE IF dbg /\ Overflows16(KEY_SIZE + Wrap16(len))
                          THEN InsertResult("panic", p, "-", "-", 0, 0)
                          ELSE InsertAt(p, f.idx, u.v, key, fill, len, Wrap16(len),
                                        Wrap16(KEY_SIZE + Wrap16(len)), dbg)
                          : u \in {unallocated_space(p, dbg)}})
               : f \in {find_le_key_idx(p, U64(key), dbg)}})

---------------------------------------------------------------------------
(* Node::delete, Node::delete_at_idx (mod.rs) *)

\* results of delete: found says whether a pair is returned, key and value
\* are the pair, path the branch of the free policy that was taken
DeleteResult(st, p, found, key, value, path) ==
    [st |-> st, p |-> p, found |-> found, key |-> key, value |-> value, path |-> path]

\* lines 285-289: the last freeblock before the offset and the first at or
\* after it
RECURSIVE FindInsertionPoint(_, _, _, _, _)
FindInsertionPoint(p, prev_offset, curr_offset, value_offset, fuel) ==
    IF ~(curr_offset # 0 /\ curr_offset < value_offset)
    THEN [st |-> "ok", prev |-> prev_offset, curr |-> curr_offset]
    ELSE IF ~FreeblockReadable(curr_offset) THEN [st |-> "panic", prev |-> 0, curr |-> 0]
    ELSE IF fuel = 0 THEN [st |-> "hang", prev |-> 0, curr |-> 0]
    ELSE FindInsertionPoint(p, curr_offset, fb_next(p, curr_offset), value_offset, fuel - 1)

\* a delete that never finds the value at free_end
NeverAtBorder(value_offset, fe) == FALSE

\* a delete that takes every value to be at free_end
AlwaysAtBorder(value_offset, fe) == TRUE

\* line 262: the value starts at free_end
AtBorder(value_offset, fe) == value_offset = fe

\* lines 281-302: the value's space joins the chain as a freeblock
AddFreeblock(p, value_offset, value_len, dbg) ==
    Only({IF at.st # "ok" THEN Fail(at.st, p)
          ELSE Only({IF w.st # "ok" THEN w
                     ELSE PatchPredecessor(w.p, at.prev, value_offset)
                     : w \in {write_freeblock(p, value_len, at.curr, value_offset, dbg)}})
          : at \in {FindInsertionPoint(p, 0, first_freeblock(p), value_offset, PAGE_SIZE)}})

\* lines 258-307, after the slot dk was removed
FreeValue(p1, dk, dbg) ==
    IF ~SliceOk(dk.value_offset, dk.value_len)
    THEN DeleteResult("panic", p1, FALSE, U64(0), NoValue, "-")
    ELSE IF ~HeaderValid(p1) THEN DeleteResult("err", p1, FALSE, U64(0), NoValue, "-")
    ELSE IF AtBorder(dk.value_offset, free_end(p1))
    THEN IF dbg /\ Overflows16(free_end(p1) + dk.value_len)
         THEN DeleteResult("panic", p1, FALSE, U64(0), NoValue, "border")
         ELSE DeleteResult("ok",
                  WriteU16(p1, OFF_FREE_END, Wrap16(free_end(p1) + dk.value_len)),
                  TRUE, dk.key, Slice(p1, dk.value_offset, dk.value_len), "border")
    ELSE IF dk.value_len < FREEBLOCK_SIZE
    THEN DeleteResult("ok",
             SetByte(p1, OFF_FRAGMENTED_BYTES,
                     SaturatingAddU8(fragmented_bytes(p1), dk.value_len)),
             TRUE, dk.key, Slice(p1, dk.value_offset, dk.value_len), "fragment")
    ELSE Only({IF l.st # "ok" THEN DeleteResult(l.st, l.p, FALSE, U64(0), NoValue, "freeblock")
               ELSE DeleteResult("ok", l.p, TRUE, dk.key,
                                 Slice(p1, dk.value_offset, dk.value_len), "freeblock")
               : l \in {AddFreeblock(p1, dk.value_offset, dk.value_len, dbg)}})

delete_at_idx(p, idx, dbg) ==
    Only({IF popped.st # "ok"
          THEN DeleteResult(popped.st, popped.p, FALSE, U64(0), NoValue, "-")
          ELSE FreeValue(popped.p, popped.key, dbg)
          : popped \in {pop_key_at(p, idx, dbg)}})

delete(p, key, dbg) ==
    Only({IF f.st # "ok" THEN DeleteResult(f.st, p, FALSE, U64(0), NoValue, "-")
          ELSE IF ~f.found THEN DeleteResult("ok", p, FALSE, U64(0), NoValue, "-")
          ELSE delete_at_idx(p, f.idx, dbg)
          : f \in {find_le_key_idx(p, U64(key), dbg)}})

---------------------------------------------------------------------------
(* The state machine: a caller of the public operations *)

\* the first byte of the buffer handed to new is drawn from 0..MaxInitByte
MaxInitByte == 2

\* shadow is what the caller stored: for every key, whether a pair is
\* stored and the value it was stored with
NoEntry == [present |-> FALSE, fill |-> 0, len |-> 0]

Entry(fill, len) == [present |-> TRUE, fill |-> fill, len |-> len]

NoCall == [op |-> "none", key |-> 0, len |-> 0, fill |-> 0, st |-> "ok",
           res |-> "-", path |-> "-", required |-> 0, actual |-> 0, before |-> 0]

\* the last call: its arguments, how it ended and free_space() before it
Call(op, key, len, fill, st, res, path, required, actual, before) ==
    [op |-> op, key |-> key, len |-> len, fill |-> fill, st |-> st,
     res |-> res, path |-> path, required |-> required, actual |-> actual,
     before |-> before]

\* a panic or an endless loop ends the use of the node
PhaseAfter(st) == IF st = "panic" THEN "panicked" ELSE IF st = "hang" THEN "hung" ELSE "node"

\* the value the caller stores under a key starts with the key's number
FillOf(key) == key

\* free_space() as the caller observes it, -1 when the call does not return
Observed(p, dbg) == LET r == free_space(p, dbg) IN IF r.st = "ok" THEN r.v ELSE 0 - 1

\* a buffer of zeros but for its first byte
BlankPage(first) ==
    [b \in Blocks |-> [i \in 0..(BLOCK - 1) |-> IF OffsetOf(b, i) = 0 THEN first ELSE 0]]

\* The page of a caller that stored 40 bytes under key 1 and 4009 bytes
\* under key 2 and deleted key 1: two slots' worth of space is left, 17
\* bytes of it unallocated and 40 in a freeblock.
StoredPage ==
    Only({Only({delete(p2, 1, FALSE).p : p2 \in {insert(p1, 2, FillOf(2), 4009, FALSE).p}})
          : p1 \in {insert(new(BlankPage(0), PAGE_SIZE, FALSE).p, 1, FillOf(1), 40, FALSE).p}})

StoredShadow == [k \in Keys |-> IF k = 2 THEN Entry(FillOf(2), 4009) ELSE NoEntry]

\* The page of the same caller after an empty value was stored under key 1
\* as well: 1 byte is unallocated and 40 are in the freeblock.
StoredPageEmptyValue == insert(StoredPage, 1, FillOf(1), 0, FALSE).p

StoredShadowEmptyValue == [StoredShadow EXCEPT ![1] = Entry(FillOf(1), 0)]

\* The page of a caller that stored 41 bytes under key 1, 40 bytes under
\* key 2 and 3940 bytes under key 3 and deleted keys 1 and 2: 45 bytes are
\* unallocated and the chain holds a freeblock of 40 bytes at 4015 followed
\* by one of 41 bytes at 4055.
StoredPageTwoFreeblocks ==
    Only({Only({Only({Only({delete(p4, 2, FALSE).p
                            : p4 \in {delete(p3, 1, FALSE).p}})
                      : p3 \in {insert(p2, 3, FillOf(3), 3940, FALSE).p}})
                : p2 \in {insert(p1, 2, FillOf(2), 40, FALSE).p}})
          : p1 \in {insert(new(BlankPage(0), PAGE_SIZE, FALSE).p, 1, FillOf(1), 41, FALSE).p}})

StoredShadowTwoFreeblocks == [k \in Keys |-> IF k = 3 THEN Entry(FillOf(3), 3940) ELSE NoEntry]

\* The page of the caller of StoredPageEmptyValue in a build without debug
\* assertions, after an empty value was stored under key 4 and 2 bytes
\* under key 3: the first insert took the freeblock path with 1 unallocated
\* byte and the second the fast path.  The slot array ends at 78 and
\* free_end is 45.
StoredPageOverrun ==
    Only({insert(p1, 3, FillOf(3), 2, FALSE).p
          : p1 \in {insert(StoredPageEmptyValue, 4, FillOf(4), 0, FALSE).p}})

StoredShadowOverrun ==
    [StoredShadowEmptyValue EXCEPT ![4] = Entry(FillOf(4), 0), ![3] = Entry(FillOf(3), 2)]

\* the lengths of the buffers handed to new and load
BufferLens == {0, HEADER_SIZE - 1, HEADER_SIZE, PAGE_SIZE - 1, PAGE_SIZE}

\* The caller holds a blank buffer of some length, which new makes a page,
\* or a stored page, which load opens.  The bytes of a buffer shorter than
\* PAGE_SIZE are the first page_len bytes of page.
Init ==
    /\ \/ /\ \E b \in 0..MaxInitByte : page = BlankPage(b)
          /\ page_len \in BufferLens
          /\ page_len = 0 => page = BlankPage(0)
          /\ phase = "buffer"
          /\ shadow = [k \in Keys |-> NoEntry]
       \/ /\ page = StoredPage
          /\ page_len = PAGE_SIZE
          /\ phase = "stored"
          /\ shadow = StoredShadow
       \/ /\ page = StoredPageEmptyValue
          /\ page_len = PAGE_SIZE
          /\ phase = "stored"
          /\ shadow = StoredShadowEmptyValue
       \/ /\ page = StoredPageTwoFreeblocks
          /\ page_len = PAGE_SIZE
          /\ phase = "stored"
          /\ shadow = StoredShadowTwoFreeblocks
       \/ /\ page = StoredPageOverrun
          /\ page_len = PAGE_SIZE
          /\ phase = "stored"
          /\ shadow = StoredShadowOverrun
          /\ debug_assertions = FALSE
    /\ debug_assertions \in BOOLEAN
    /\ last = NoCall
    /\ nops = 0

\* a node over a buffer of another length than PAGE_SIZE is not used further
New ==
    /\ phase = "buffer"
    /\ \E r \in {new(page, page_len, debug_assertions)} :
           /\ page' = r.p
           /\ phase' = IF r.st # "ok" THEN "failed"
                       ELSE IF page_len = PAGE_SIZE THEN "node" ELSE "missized"
           /\ last' = Call("new", 0, 0, 0, r.st, "-", "-", 0, 0, 0)
    /\ UNCHANGED <<page_len, debug_assertions, shadow, nops>>

\* load wraps a buffer.  The caller goes on with the stored page; nothing
\* is called on a blank buffer that was loaded.
Load ==
    /\ phase \in {"buffer", "stored"}
    /\ \E r \in {load(page, page_len, debug_assertions)} :
           /\ page' = r.p
           /\ phase' = IF r.st # "ok" THEN "failed"
                       ELSE IF phase = "stored" THEN "node" ELSE "loaded"
           /\ last' = Call("load", 0, 0, 0, r.st, "-", "-", 0, 0, 0)
    /\ UNCHANGED <<page_len, debug_assertions, shadow, nops>>

Insert ==
    /\ phase = "node"
    /\ nops < MaxOps
    /\ \E key \in Keys, len \in ValueLens :
          \* r is the result of the one call
          \E r \in {insert(page, key, FillOf(key), len, debug_assertions)} :
              /\ page' = r.p
              /\ phase' = PhaseAfter(r.st)
              /\ shadow' = IF r.st = "ok" /\ r.res = "None"
                           THEN [shadow EXCEPT ![key] = Entry(FillOf(key), len)]
                           ELSE shadow
              /\ last' = Call("insert", key, len, FillOf(key), r.st, r.res, r.path,
                              r.required, r.actual, Observed(page, debug_assertions))
    /\ nops' = nops + 1
    /\ UNCHANGED <<page_len, debug_assertions>>

Delete ==
    /\ phase = "node"
    /\ nops < MaxOps
    /\ \E key \in Keys :
          \E r \in {delete(page, key, debug_assertions)} :
              /\ page' = r.p
              /\ phase' = PhaseAfter(r.st)
              /\ shadow' = IF r.st = "ok" THEN [shadow EXCEPT ![key] = NoEntry] ELSE shadow
              /\ last' = Call("delete", key, Len(r.value), 0, r.st,
                              IF r.found THEN "Some" ELSE "None", r.path, 0, 0,
                              Observed(page, debug_assertions))
    /\ nops' = nops + 1
    /\ UNCHANGED <<page_len, debug_assertions>>

Defrag ==
    /\ phase = "node"
    /\ nops < MaxOps
    /\ \E r \in {defrag(page, debug_assertions)} :
           /\ page' = r.p
           /\ phase' = PhaseAfter(r.st)
           /\ last' = Call("defrag", 0, 0, 0, r.st, "-", "-", 0, 0,
                           Observed(page, debug_assertions))
    /\ nops' = nops + 1
    /\ UNCHANGED <<page_len, debug_assertions, shadow>>

Next == New \/ Load \/ Insert \/ Delete \/ Defrag

Spec == Init /\ [][Next]_vars

---------------------------------------------------------------------------
(* The caller of the scenarios: a fresh page is filled with short values,
   emptied in the order of insertion and used once more *)

\* the number of values stored before the first delete
MaxFill == 3

\* the lengths of the values of the scenarios
ScenarioLens == {1, 2, 3, 5, 14}

\* a deleted pair: the caller remembers what it had stored
Deleted(e) == [e EXCEPT !.present = FALSE]

\* key was stored before every other pair that is still stored
Oldest(key) ==
    /\ shadow[key].present
    /\ \A k \in Keys : shadow[k].present => shadow[key].fill <= shadow[k].fill

ScenarioInit ==
    /\ page = BlankPage(0)
    /\ page_len = PAGE_SIZE
    /\ phase = "buffer"
    /\ shadow = [k \in Keys |-> NoEntry]
    /\ debug_assertions \in BOOLEAN
    /\ last = NoCall
    /\ nops = 0

ScenarioNew ==
    /\ phase = "buffer"
    /\ \E r \in {new(page, page_len, debug_assertions)} :
           /\ page' = r.p
           /\ phase' = IF r.st = "ok" THEN "filling" ELSE "failed"
           /\ last' = Call("new", 0, 0, 0, r.st, "-", "-", 0, 0, 0)
    /\ UNCHANGED <<page_len, debug_assertions, shadow, nops>>

\* the insert of a key that was not used yet; nops counts the inserts, and
\* the value of the n-th insert starts with the byte n
ScenarioInsert(key, len, after) ==
    /\ shadow[key] = NoEntry
    /\ \E r \in {insert(page, key, nops + 1, len, debug_assertions)} :
           /\ page' = r.p
           /\ phase' = IF r.st = "ok" THEN after ELSE PhaseAfter(r.st)
           /\ shadow' = IF r.st = "ok" /\ r.res = "None"
                        THEN [shadow EXCEPT ![key] = Entry(nops + 1, len)]
                        ELSE shadow
           /\ last' = Call("insert", key, len, nops + 1, r.st, r.res, r.path,
                           r.required, r.actual, Observed(page, debug_assertions))
    /\ nops' = nops + 1
    /\ UNCHANGED <<page_len, debug_assertions>>

Fill ==
    /\ phase = "filling"
    /\ nops < MaxFill
    /\ \E key \in Keys, len \in ScenarioLens : ScenarioInsert(key, len, "filling")

\* the delete of the pair that was stored first
Drain ==
    /\ phase \in {"filling", "draining"}
    /\ \E key \in Keys :
          /\ Oldest(key)
          /\ \E r \in {delete(page, key, debug_assertions)} :
                 /\ page' = r.p
                 /\ phase' = IF r.st = "ok" THEN "draining" ELSE PhaseAfter(r.st)
                 /\ shadow' = IF r.st = "ok" THEN [shadow EXCEPT ![key] = Deleted(@)]
                              ELSE shadow
                 /\ last' = Call("delete", key, Len(r.value), 0, r.st,
                                 IF r.found THEN "Some" ELSE "None", r.path, 0, 0,
                                 Observed(page, debug_assertions))
    /\ UNCHANGED <<page_len, debug_assertions, nops>>

\* one more insert once every pair was deleted
Refill ==
    /\ phase = "draining"
    /\ \A k \in Keys : ~shadow[k].present
    /\ \E key \in Keys, len \in ScenarioLens : ScenarioInsert(key, len, "refilled")

ScenarioNext == ScenarioNew \/ Fill \/ Drain \/ Refill

ScenarioSpec == ScenarioInit /\ [][ScenarioNext]_vars

---------------------------------------------------------------------------
(* Properties *)

\* a call has returned and the node can be used: no panic, no endless loop
Usable == phase = "node"

\* get(k) on the current page
Got(k) == get(page, k, debug_assertions)

\* get(k) returns what the caller last stored under k, or absent
GetAgrees(k) ==
    LET g == Got(k)
    IN  /\ g.st = "ok"
        /\ g.found = shadow[k].present
        /\ shadow[k].present => g.value = Value(shadow[k].fill, shadow[k].len)

\* C1: after any sequence of insert calls with distinct live keys, delete
\* calls and defrag calls on a page created by new, get(k) returns exactly
\* the bytes last inserted for every key that was inserted and not deleted
\* since, and absent for every other key.
C1_GetReturnsLastInserted == Usable => \A k \in Keys : GetAgrees(k)

\* the header fields are ordered as the layout of the page needs
HeaderOrdered(p) ==
    /\ HEADER_SIZE <= free_start(p)
    /\ free_start(p) <= free_end(p)
    /\ free_end(p) <= PAGE_SIZE

\* C2: after new and after every insert, delete and defrag, in any sequence
\* (inserts that reuse a freeblock included), the header satisfies
\* HEADER_SIZE <= free_start <= free_end <= PAGE_SIZE.
C2_HeaderOrdered == Usable => HeaderOrdered(page)

\* the last call was an insert of a key the page did not hold, and
\* free_space() returned before it
InsertedNewKey ==
    /\ last.op = "insert"
    /\ last.path # "replace"
    /\ last.before >= 0

\* C3: for a key that is not present and a value of length v, insert
\* succeeds (returns absent and stores the pair) whenever
\* free_space >= 16 + v; the branch that panics after defrag is never taken.
C3_InsertSucceedsWhenSpace ==
    (InsertedNewKey /\ last.before >= KEY_SIZE + last.len)
        => /\ last.st = "ok"
           /\ last.res = "None"
           /\ Got(last.key).st = "ok"
           /\ Got(last.key).found
           /\ Got(last.key).value = Value(last.fill, last.len)

\* C4: insert(k, v) for a key k that is already present replaces the stored
\* value: it returns the previous pair, afterwards get(k) = v, num_keys is
\* unchanged and the old value region is given back to the free space.
C4_InsertReplaces ==
    [][(last'.op = "insert" /\ last'.path = "replace")
          => /\ last'.st = "ok"
             /\ last'.res = "Some"
             /\ num_keys(page') = num_keys(page)
             /\ get(page', last'.key, debug_assertions).value
                    = Value(last'.fill, last'.len)
             /\ Observed(page', debug_assertions)
                    = last'.before + shadow[last'.key].len - last'.len]_vars

\* C5: insert of a new key with a value of length v returns
\* NotEnoughSpace{required = 16 + v, actual = free_space} exactly when
\* free_space < 16 + v, and then the page is byte-identical to the page
\* before the call.
C5_NotEnoughSpaceExactly ==
    [][(last'.op = "insert" /\ last'.path # "replace" /\ last'.before >= 0)
          => /\ (last'.res = "NotEnoughSpace") <=> (last'.before < KEY_SIZE + last'.len)
             /\ last'.res = "NotEnoughSpace"
                   => /\ last'.required = KEY_SIZE + last'.len
                      /\ last'.actual = last'.before
                      /\ page' = page]_vars

\* the slot array lies inside the page, so that its slots can be read
SlotsReadable(p) == get_key_pos(num_keys(p)) <= PAGE_SIZE

SlotIndexes(p) == 0..(num_keys(p) - 1)

\* the byte ranges [o1, o1 + l1) and [o2, o2 + l2) share no byte
Disjoint(o1, l1, o2, l2) == l1 = 0 \/ l2 = 0 \/ o1 + l1 <= o2 \/ o2 + l2 <= o1

\* the value region of slot i lies in [free_end, PAGE_SIZE)
ValueInPayload(p, i) ==
    LET k == read_key_at(p, i)
    IN  free_end(p) <= k.value_offset /\ k.value_offset + k.value_len <= PAGE_SIZE

ValuesDisjoint(p, i, j) ==
    LET a == read_key_at(p, i)
        b == read_key_at(p, j)
    IN  Disjoint(a.value_offset, a.value_len, b.value_offset, b.value_len)

\* C6: for every live slot, free_end <= value_offset and
\* value_offset + value_len <= PAGE_SIZE, and the value regions of two
\* distinct live slots do not overlap; after every insert, delete and defrag,
\* values of length 0 and deletes at the boundary included.
C6_ValueRegions ==
    Usable => /\ SlotsReadable(page)
              /\ \A i \in SlotIndexes(page) : ValueInPayload(page, i)
              /\ \A i, j \in SlotIndexes(page) : i # j => ValuesDisjoint(page, i, j)

\* the freeblock at offset o shares no byte with the value of any slot
FreeblockOffValues(p, o) ==
    \A i \in SlotIndexes(p) :
        LET k == read_key_at(p, i)
        IN  Disjoint(o, fb_size(p, o), k.value_offset, k.value_len)

\* the chain from offset o on ends in 0, every freeblock of it starts at or
\* after floor (the end of the one before it), has size >= 4, lies in
\* [free_end, PAGE_SIZE) and shares no byte with a value
RECURSIVE ChainOk(_, _, _)
ChainOk(p, o, floor) ==
    \/ o = 0
    \/ /\ FreeblockReadable(o)
       /\ floor <= o
       /\ free_end(p) <= o
       /\ fb_size(p, o) >= FREEBLOCK_SIZE
       /\ o + fb_size(p, o) <= PAGE_SIZE
       /\ FreeblockOffValues(p, o)
       /\ ChainOk(p, fb_next(p, o), o + fb_size(p, o))

\* C7: in every state reachable through new, insert, delete and defrag the
\* freeblocks from first_freeblock on form a finite chain ending in 0 with
\* strictly ascending offsets, every freeblock has size >= 4 and lies inside
\* [free_end, PAGE_SIZE), and the freeblocks are disjoint from each other and
\* from every live value region.
C7_FreeblockChain ==
    Usable => SlotsReadable(page) /\ ChainOk(page, first_freeblock(page), 0)

\* C8: after every insert, delete and defrag the slot keys are strictly
\* ascending, whatever the order in which the keys were inserted.
C8_KeysAscending ==
    Usable => /\ SlotsReadable(page)
              /\ \A i \in SlotIndexes(page) :
                    i + 1 < num_keys(page)
                        => U64Less(read_key_at(page, i).key, read_key_at(page, i + 1).key)

\* C9: after new and after every insert, delete and defrag,
\* free_start = HEADER_SIZE + 16 * num_keys.
C9_FreeStartCountsSlots ==
    Usable => free_start(page) = HEADER_SIZE + KEY_SIZE * num_keys(page)

\* C10: a successful insert of a new key with a value of length v lowers
\* free_space() by exactly 16 + v and a successful delete of a key with a
\* value of length v raises it by exactly 16 + v, whichever path is taken;
\* a page without keys has free_space() = PAGE_SIZE - HEADER_SIZE.
C10_FreeSpaceAccounting ==
    [][/\ (last'.op = "insert" /\ last'.st = "ok" /\ last'.res = "None" /\ last'.before >= 0)
           => Observed(page', debug_assertions) = last'.before - (KEY_SIZE + last'.len)
       /\ (last'.op = "delete" /\ last'.st = "ok" /\ last'.res = "Some" /\ last'.before >= 0)
           => Observed(page', debug_assertions) = last'.before + (KEY_SIZE + last'.len)
       /\ (phase' = "node" /\ num_keys(page') = 0)
           => Observed(page', debug_assertions) = PAGE_SIZE - HEADER_SIZE]_vars

\* get(k) gives the same result on the pages p and q
SameGet(p, q, k) == get(p, k, debug_assertions) = get(q, k, debug_assertions)

\* C11: delete(k) for a present key returns the pair (k, value) with the
\* value get(k) returned just before, afterwards get(k) is absent and get of
\* every other key is unchanged; delete(k) for an absent key returns absent
\* and leaves the page byte-identical.
C11_DeleteReturnsPair ==
    [][(last'.op = "delete" /\ get(page, last'.key, debug_assertions).st = "ok")
          => /\ last'.st = "ok"
             /\ IF get(page, last'.key, debug_assertions).found
                THEN /\ last'.res = "Some"
                     /\ delete(page, last'.key, debug_assertions).key = U64(last'.key)
                     /\ delete(page, last'.key, debug_assertions).value
                            = get(page, last'.key, debug_assertions).value
                     /\ get(page', last'.key, debug_assertions).st = "ok"
                     /\ ~get(page', last'.key, debug_assertions).found
                     /\ \A k \in Keys \ {last'.key} : SameGet(page, page', k)
                ELSE /\ last'.res = "None"
                     /\ page' = page]_vars

\* the slots of p and q hold the same keys with the same value lengths, in
\* the same order
SameSlots(p, q) ==
    /\ num_keys(q) = num_keys(p)
    /\ \A i \in SlotIndexes(p) :
          /\ read_key_at(q, i).key = read_key_at(p, i).key
          /\ read_key_at(q, i).value_len = read_key_at(p, i).value_len

\* the sum of the value lengths of the slots i..num_keys-1
RECURSIVE LiveBytes(_, _)
LiveBytes(p, i) ==
    IF i >= num_keys(p) THEN 0 ELSE read_key_at(p, i).value_len + LiveBytes(p, i + 1)

\* the values of the slots lie one after the other in slot order, the first
\* at free_end
Packed(p) ==
    \A i \in SlotIndexes(p) :
        read_key_at(p, i).value_offset
            = IF i = 0 THEN free_end(p)
              ELSE read_key_at(p, i - 1).value_offset + read_key_at(p, i - 1).value_len

\* C12: from any reachable page, defrag leaves num_keys, the slot order,
\* every slot's key and value_len and every get(k) unchanged, sets
\* first_freeblock = 0 and fragmented_bytes = 0, and sets
\* free_end = PAGE_SIZE - (sum of the live value_len), with the values packed
\* in slot order from the new free_end on.
C12_DefragPacks ==
    [][last'.op = "defrag"
          => /\ last'.st = "ok"
             /\ SlotsReadable(page)
             /\ SameSlots(page, page')
             /\ \A k \in Keys : SameGet(page, page', k)
             /\ first_freeblock(page') = 0
             /\ fragmented_bytes(page') = 0
             /\ free_end(page') = PAGE_SIZE - LiveBytes(page', 0)
             /\ Packed(page')]_vars

\* C13: defrag is idempotent: from any reachable page a second defrag leaves
\* the bytes of the page as the first left them, and every get(k) is as it
\* was before the first.
C13_DefragIdempotent ==
    [][last'.op = "defrag"
          => /\ last'.st = "ok"
             /\ defrag(page', debug_assertions).st = "ok"
             /\ defrag(page', debug_assertions).p = page'
             /\ \A k \in Keys : SameGet(page, page', k)]_vars

\* C14: defrag leaves free_space() unchanged: its value right after defrag
\* is its value right before.
C14_DefragKeepsFreeSpace ==
    [][(last'.op = "defrag" /\ last'.before >= 0)
          => /\ last'.st = "ok"
             /\ Observed(page', debug_assertions) = last'.before]_vars

\* the header of an empty Leaf page with free_start = start
EmptyLeaf(p, start) ==
    /\ Byte(p, OFF_NODE_TYPE) = NODE_LEAF
    /\ num_keys(p) = 0
    /\ free_start(p) = start
    /\ free_end(p) = PAGE_SIZE
    /\ first_freeblock(p) = 0
    /\ fragmented_bytes(p) = 0
    /\ rightmost_child_page(p) = U32(0)

\* C15: new succeeds on any buffer of PAGE_SIZE bytes, whatever bytes it
\* held (a first byte that is no node_type included), and leaves it an
\* empty Leaf page.
C15_NewSucceedsOnAnyBuffer ==
    [][(last'.op = "new" /\ page_len = PAGE_SIZE)
          => /\ last'.st = "ok"
             /\ EmptyLeaf(page', HEADER_SIZE)]_vars

\* get(k) is absent for every key
AllAbsent(p) ==
    \A k \in Keys : /\ get(p, k, debug_assertions).st = "ok"
                    /\ ~get(p, k, debug_assertions).found

\* new is called on a fresh page: PAGE_SIZE bytes, all zero
NewOnFreshPage == last'.op = "new" /\ page = BlankPage(0) /\ page_len = PAGE_SIZE

\* C16 as the spec states it: the header occupies 13 bytes; after new on a
\* fresh page free_start = 13 (slot i starts at 13 + 16 * i), num_keys = 0,
\* free_end = 4096, first_freeblock = 0, fragmented_bytes = 0 and get(k) is
\* absent for every k.
C16_HeaderOf13Bytes ==
    [][NewOnFreshPage
          => /\ last'.st = "ok"
             /\ EmptyLeaf(page', 13)
             /\ \A i \in 0..MaxKey : get_key_pos(i) = 13 + 16 * i
             /\ AllAbsent(page')]_vars

\* C16: the header occupies 14 bytes, the sum of its fields' widths; after
\* new on a fresh page free_start = 14 (slot i starts at 14 + 16 * i),
\* num_keys = 0, free_end = 4096, first_freeblock = 0, fragmented_bytes = 0
\* and get(k) is absent for every k.
C16_HeaderOf14Bytes ==
    [][NewOnFreshPage
          => /\ last'.st = "ok"
             /\ OFF_RIGHTMOST_CHILD_PAGE + 4 = 14
             /\ EmptyLeaf(page', 14)
             /\ free_end(page') = 4096
             /\ \A i \in 0..MaxKey : get_key_pos(i) = 14 + 16 * i
             /\ AllAbsent(page')]_vars

\* new has returned an empty page
C16_Witness ==
    /\ last.op = "new"
    /\ last.st = "ok"
    /\ page_len = PAGE_SIZE
    /\ phase = "node"
    /\ EmptyLeaf(page, 14)

\* C17: load of a buffer whose header cannot be interpreted (a node_type
\* byte other than 0 or 1) returns an error instead of a usable Node and
\* writes nothing to the buffer.
C17_LoadRejectsInvalidHeader ==
    [][(last'.op = "load" /\ page_len = PAGE_SIZE /\ ~HeaderValid(page))
          => /\ last'.st = "err"
             /\ page' = page]_vars

\* C18: new and load called with a buffer whose length is not PAGE_SIZE
\* return an error value to the caller, without writing to the buffer and
\* without aborting.
C18_SizeMismatchReturned ==
    [][(last'.op \in {"new", "load"} /\ page_len # PAGE_SIZE)
          => /\ last'.st = "err"
             /\ page' = page]_vars

\* the unallocated space at the moment insert_key_at was called, read from
\* the page q it returned: the call added KEY_SIZE to free_start and left
\* free_end alone
UnallocatedAtSlotInsertion(q) == free_end(q) - (free_start(q) - KEY_SIZE)

\* the insert of the step added a slot without room for it
SlotWithoutRoom(r) ==
    /\ r.st = "ok"
    /\ r.res = "None"
    /\ UnallocatedAtSlotInsertion(r.p) < KEY_SIZE

\* C19: every time insert adds a slot (at the high end, in a reused
\* freeblock, on the retry after defrag) unallocated >= 16 holds at the
\* moment of the call of insert_key_at: the debug assertion of insert_key_at
\* never fires and the slot array never grows over payload bytes.  The
\* assertion fires in a build with debug assertions where the build without
\* them adds the slot without room.
C19_SlotInsertionHasRoom ==
    [][last'.op = "insert"
          => /\ (last'.st = "ok" /\ last'.res = "None")
                   => UnallocatedAtSlotInsertion(page') >= KEY_SIZE
             /\ (debug_assertions /\ last'.st = "panic")
                   => ~SlotWithoutRoom(insert(page, last'.key, last'.fill, last'.len, FALSE))]_vars

\* the freeblocks of the chain from o on, as pairs of offset and size
RECURSIVE ChainList(_, _, _)
ChainList(p, o, fuel) ==
    IF o = 0 \/ ~FreeblockReadable(o) \/ fuel = 0 THEN <<>>
    ELSE <<<<o, fb_size(p, o)>>>> \o ChainList(p, fb_next(p, o), fuel - 1)

\* the value_offset of the slot of key k
ValueOffsetOf(p, k) ==
    read_key_at(p, find_le_key_idx(p, U64(k), debug_assertions).idx).value_offset

\* C20: whenever unallocated >= 16 + v for a new key with a value of length
\* v (equality included), insert takes the fast path: the value is written
\* at free_end - v, free_end decreases by exactly v, the slot's value_offset
\* is the new free_end, and first_freeblock, every freeblock and
\* fragmented_bytes are unchanged.
C20_FastPathWhenUnallocatedFits ==
    [][(/\ last'.op = "insert"
        /\ last'.path # "replace"
        /\ get(page, last'.key, debug_assertions).st = "ok"
        /\ unallocated_space(page, debug_assertions).st = "ok"
        /\ unallocated_space(page, debug_assertions).v >= KEY_SIZE + last'.len)
          => /\ last'.st = "ok"
             /\ last'.res = "None"
             /\ last'.path = "fast"
             /\ free_end(page') = free_end(page) - last'.len
             /\ Slice(page', free_end(page'), last'.len) = Value(last'.fill, last'.len)
             /\ find_le_key_idx(page', U64(last'.key), debug_assertions).found
             /\ ValueOffsetOf(page', last'.key) = free_end(page')
             /\ first_freeblock(page') = first_freeblock(page)
             /\ ChainList(page', first_freeblock(page'), MaxKey + MaxOps)
                    = ChainList(page, first_freeblock(page), MaxKey + MaxOps)
             /\ fragmented_bytes(page') = fragmented_bytes(page)]_vars

---------------------------------------------------------------------------
(* The freeblock path of insert *)

\* the longest chain the bounded runs build
ChainFuel == MaxKey + MaxOps

\* the chain of page p
ChainOf(p) == ChainList(p, first_freeblock(p), ChainFuel)

\* the place in chain of its first freeblock of size >= v, 0 when there is none
FirstFitIndex(chain, v) ==
    IF \E i \in 1..Len(chain) : chain[i][2] >= v
    THEN CHOOSE i \in 1..Len(chain) :
             /\ chain[i][2] >= v
             /\ \A j \in 1..(i - 1) : chain[j][2] < v
    ELSE 0

\* the step is an insert that went past the fast path with free_space >= 16 + v
InsertPastFastPath ==
    /\ last'.op = "insert"
    /\ last'.path \in {"freeblock", "defrag"}
    /\ last'.before >= KEY_SIZE + last'.len

\* C21: when insert does not take the fast path and free_space >= 16 + v,
\* the value is placed at the offset of the first freeblock in chain order
\* whose size is >= v: every freeblock earlier in the chain is smaller than
\* v and stays in the chain with its offset and size, and defrag is run
\* only if no freeblock of the chain has size >= v.
C21_FirstFit ==
    [][InsertPastFastPath
          => LET chain == ChainOf(page)
                 fit == FirstFitIndex(chain, last'.len)
             IN  IF fit = 0 THEN last'.path = "defrag"
                 ELSE /\ last'.path = "freeblock"
                      /\ Slice(page', chain[fit][1], last'.len)
                             = Value(last'.fill, last'.len)
                      /\ last'.st = "ok"
                            => /\ find_le_key_idx(page', U64(last'.key), debug_assertions).found
                               /\ ValueOffsetOf(page', last'.key) = chain[fit][1]
                      /\ \A j \in 1..(fit - 1) : chain[j][2] < last'.len
                      /\ Len(ChainOf(page')) >= fit - 1
                      /\ SubSeq(ChainOf(page'), 1, fit - 1) = SubSeq(chain, 1, fit - 1)]_vars

\* the sum of the sizes of the freeblocks of chain
RECURSIVE SumSizes(_)
SumSizes(chain) == IF chain = <<>> THEN 0 ELSE chain[1][2] + SumSizes(Tail(chain))

\* what is left in the chain of the freeblock at offset o of size s that
\* took a value of length v
RestOf(o, s, v) == IF s - v >= FREEBLOCK_SIZE THEN <<<<o + v, s - v>>>> ELSE <<>>

\* C22: when insert reuses a freeblock at offset o of size s with successor
\* n for a value of length v: if s = v the block is unlinked; if s - v >= 4
\* a freeblock of size s - v with next n takes its place in the chain at
\* o + v; if 0 < s - v < 4 the block is unlinked and fragmented_bytes grows
\* by s - v, saturating at 255.  In all three cases the value is stored at o
\* and fragmented_bytes plus the sum of the freeblock sizes decreases by
\* exactly v, absent saturation.
C22_FreeblockReuse ==
    [][(InsertPastFastPath /\ FirstFitIndex(ChainOf(page), last'.len) # 0)
          => LET chain == ChainOf(page)
                 fit == FirstFitIndex(chain, last'.len)
                 o == chain[fit][1]
                 s == chain[fit][2]
                 v == last'.len
             IN  /\ ChainOf(page') = SubSeq(chain, 1, fit - 1) \o RestOf(o, s, v)
                                         \o SubSeq(chain, fit + 1, Len(chain))
                 /\ fragmented_bytes(page')
                        = IF s - v > 0 /\ s - v < FREEBLOCK_SIZE
                          THEN SaturatingAddU8(fragmented_bytes(page), s - v)
                          ELSE fragmented_bytes(page)
                 /\ Slice(page', o, v) = Value(last'.fill, v)
                 /\ fragmented_bytes(page) + s - v <= U8_MAX
                       => fragmented_bytes(page') + SumSizes(ChainOf(page'))
                              = fragmented_bytes(page) + SumSizes(chain) - v]_vars

---------------------------------------------------------------------------
(* The three ways delete frees a value *)

\* the slot of key k in page p
SlotOf(p, k) == read_key_at(p, find_le_key_idx(p, U64(k), debug_assertions).idx)

\* the step is a delete of a key that get finds
DeleteOfPresentKey ==
    /\ last'.op = "delete"
    /\ get(page, last'.key, debug_assertions).st = "ok"
    /\ get(page, last'.key, debug_assertions).found

\* C23: when delete removes a key whose value_offset equals free_end,
\* free_end increases by exactly value_len, no freeblock is created, and
\* first_freeblock, every freeblock and fragmented_bytes are unchanged; the
\* value returned is the bytes that were stored under the key.
C23_DeleteAtBorder ==
    [][(/\ DeleteOfPresentKey
        /\ shadow[last'.key].present
        /\ SlotOf(page, last'.key).value_offset = free_end(page))
          => /\ last'.st = "ok"
             /\ last'.res = "Some"
             /\ free_end(page') = free_end(page) + SlotOf(page, last'.key).value_len
             /\ first_freeblock(page') = first_freeblock(page)
             /\ ChainOf(page') = ChainOf(page)
             /\ fragmented_bytes(page') = fragmented_bytes(page)
             /\ delete(page, last'.key, debug_assertions).value
                    = Value(shadow[last'.key].fill, shadow[last'.key].len)]_vars

\* C24: when delete removes a key whose value is not at free_end and whose
\* length v is < 4, fragmented_bytes becomes min(255, fragmented_bytes + v)
\* and free_end, first_freeblock and every freeblock are unchanged.
C24_DeleteSmallValue ==
    [][(/\ DeleteOfPresentKey
        /\ SlotOf(page, last'.key).value_offset # free_end(page)
        /\ SlotOf(page, last'.key).value_len < FREEBLOCK_SIZE)
          => /\ last'.st = "ok"
             /\ last'.res = "Some"
             /\ fragmented_bytes(page')
                    = IF fragmented_bytes(page) + SlotOf(page, last'.key).value_len > U8_MAX
                      THEN U8_MAX
                      ELSE fragmented_bytes(page) + SlotOf(page, last'.key).value_len
             /\ free_end(page') = free_end(page)
             /\ first_freeblock(page') = first_freeblock(page)
             /\ ChainOf(page') = ChainOf(page)]_vars

\* the freeblocks of chain that start below offset o, and those that start
\* above it
Below(chain, o) == SelectSeq(chain, LAMBDA b : b[1] < o)

Above(chain, o) == SelectSeq(chain, LAMBDA b : b[1] > o)

\* C25: when delete removes a key whose value (offset o, length v >= 4) is
\* not at free_end, exactly one freeblock of size v is added at offset o,
\* linked between the last freeblock with offset < o (or first_freeblock)
\* and the first freeblock with offset > o; no freeblock is merged, resized
\* or removed, even one byte-adjacent to the new one, and free_end and
\* fragmented_bytes are unchanged.
C25_DeleteAddsFreeblock ==
    [][(/\ DeleteOfPresentKey
        /\ SlotOf(page, last'.key).value_offset # free_end(page)
        /\ SlotOf(page, last'.key).value_len >= FREEBLOCK_SIZE)
          => LET o == SlotOf(page, last'.key).value_offset
                 v == SlotOf(page, last'.key).value_len
                 chain == ChainOf(page)
             IN  /\ last'.st = "ok"
                 /\ last'.res = "Some"
                 /\ Len(Below(chain, o)) + Len(Above(chain, o)) = Len(chain)
                 /\ ChainOf(page') = Below(chain, o) \o <<<<o, v>>>> \o Above(chain, o)
                 /\ free_end(page') = free_end(page)
                 /\ fragmented_bytes(page') = fragmented_bytes(page)]_vars

---------------------------------------------------------------------------
(* The scenarios *)

\* 14 bytes were stored under key 1 on the fresh page and deleted
ReuseDeleted ==
    /\ phase = "draining"
    /\ nops = 1
    /\ shadow[1] = Deleted(Entry(1, 14))

\* and 5 bytes were stored under key 2 after that
ReuseInserted ==
    /\ phase = "refilled"
    /\ nops = 2
    /\ shadow[1] = Deleted(Entry(1, 14))
    /\ shadow[2] = Entry(2, 5)

\* C26: freeblock reuse scenario: on a fresh page, insert(1, 14-byte value)
\* then delete(1) produces a 14-byte freeblock at the former value offset
\* (first_freeblock = that offset); the following insert(2, 5-byte value)
\* stores its value in the 5 bytes starting at that freeblock offset and
\* leaves a 9-byte freeblock; get(2) returns the 5-byte value.
C26_DeleteLeavesFreeblock ==
    /\ ReuseDeleted
          => /\ first_freeblock(page) = PAGE_SIZE - 14
             /\ fb_size(page, PAGE_SIZE - 14) = 14
    /\ ReuseInserted
          => /\ SlotOf(page, 2).value_offset = PAGE_SIZE - 14
             /\ Slice(page, PAGE_SIZE - 14, 5) = Value(2, 5)
             /\ ChainOf(page) = <<<<PAGE_SIZE - 14 + 5, 9>>>>
             /\ get(page, 2, debug_assertions) = [st |-> "ok", found |-> TRUE, value |-> Value(2, 5)]

\* C26, as the code has it: the 14-byte value sits at free_end, so
\* delete(1) moves free_end back to PAGE_SIZE and produces no freeblock; the
\* following insert(2, 5-byte value) takes the fast path and stores its
\* value in the last 5 bytes of the page, no freeblock exists afterwards,
\* and get(2) returns the 5-byte value.
C26_DeleteAtBorderLeavesNone ==
    /\ ReuseDeleted
          => /\ last.st = "ok"
             /\ last.path = "border"
             /\ free_end(page) = PAGE_SIZE
             /\ first_freeblock(page) = 0
             /\ fragmented_bytes(page) = 0
    /\ ReuseInserted
          => /\ last.st = "ok"
             /\ last.path = "fast"
             /\ free_end(page) = PAGE_SIZE - 5
             /\ SlotOf(page, 2).value_offset = PAGE_SIZE - 5
             /\ Slice(page, PAGE_SIZE - 5, 5) = Value(2, 5)
             /\ first_freeblock(page) = 0
             /\ fragmented_bytes(page) = 0
             /\ get(page, 2, debug_assertions) = [st |-> "ok", found |-> TRUE, value |-> Value(2, 5)]

\* the scenario ran to its end: the 5 bytes of key 2 are stored
C26_Witness ==
    /\ ReuseInserted
    /\ last.op = "insert"
    /\ last.key = 2
    /\ num_keys(page) = 1

\* every pair that was stored was deleted again, in the order of insertion
Drained ==
    /\ phase = "draining"
    /\ \A k \in Keys : ~shadow[k].present

\* the keys of the values stored before the last one
StoredBeforeLast == {k \in Keys : shadow[k] # NoEntry /\ shadow[k].fill < nops}

\* the total length of the values stored under the keys of S
RECURSIVE TotalLen(_)
TotalLen(S) ==
    IF S = {} THEN 0
    ELSE LET k == CHOOSE x \in S : TRUE IN shadow[k].len + TotalLen(S \ {k})

\* C27: fragmentation accounting: when n >= 1 values, each of length 1 to
\* 3, are inserted into a fresh page and then deleted in insertion order,
\* the final fragmented_bytes equals min(255, total length of all values
\* except the last inserted one) and first_freeblock is 0; for (1, "ab"),
\* (2, "cd"), (3, "ef") deleted as 1, 2, 3 the final fragmented_bytes is 4.
C27_FragmentationAccounting ==
    /\ (Drained /\ \A k \in Keys : shadow[k].len < FREEBLOCK_SIZE)
          => /\ fragmented_bytes(page)
                    = IF TotalLen(StoredBeforeLast) > U8_MAX THEN U8_MAX
                      ELSE TotalLen(StoredBeforeLast)
             /\ first_freeblock(page) = 0
    /\ (Drained /\ \A k \in 1..3 : shadow[k] = Deleted(Entry(k, 2)))
          => fragmented_bytes(page) = 4

\* the three values of 2 bytes were stored under keys 1, 2, 3 and deleted
\* in that order
C27_Witness ==
    /\ Drained
    /\ nops = 3
    /\ \A k \in 1..3 : shadow[k] = Deleted(Entry(k, 2))
    /\ last.op = "delete"
    /\ last.key = 3
    /\ last.path = "border"

---------------------------------------------------------------------------
(* The accounting of free_space *)

\* the bytes of page p that hold neither the header nor a slot nor a live
\* value
Reclaimable(p) == PAGE_SIZE - HEADER_SIZE - KEY_SIZE * num_keys(p) - LiveBytes(p, 0)

\* C28: in every reachable state free_space() <= PAGE_SIZE - HEADER_SIZE -
\* 16 * num_keys - (sum of the live value_len): the accounting never
\* overestimates the reclaimable space, and immediately after defrag the
\* two are equal.
C28_FreeSpaceNeverOverestimates ==
    Usable
       => /\ free_space(page, debug_assertions).st = "ok"
          /\ SlotsReadable(page)
          /\ free_space(page, debug_assertions).v <= Reclaimable(page)
          /\ (last.op = "defrag" /\ last.st = "ok")
                => free_space(page, debug_assertions).v = Reclaimable(page)

---------------------------------------------------------------------------
(* The search of the slot array *)

\* the keys a search is made for: those of the caller, one below and one above
Probes == 0..(MaxKey + 1)

\* the keys of the slots of p are strictly ascending
Ascending(p) ==
    /\ SlotsReadable(p)
    /\ \A i \in SlotIndexes(p) :
           i + 1 < num_keys(p) => U64Less(read_key_at(p, i).key, read_key_at(p, i + 1).key)

\* the slots of p with a key below k
SlotsBelow(p, k) == {i \in SlotIndexes(p) : U64Less(read_key_at(p, i).key, U64(k))}

\* find_le_key_idx(k) on p is right
FindLeRight(p, k) ==
    LET r == find_le_key_idx(p, U64(k), debug_assertions)
    IN  /\ r.st = "ok"
        /\ IF \E i \in SlotIndexes(p) : read_key_at(p, i).key = U64(k)
           THEN /\ r.found
                /\ r.idx \in SlotIndexes(p)
                /\ read_key_at(p, r.idx).key = U64(k)
           ELSE /\ ~r.found
                /\ r.idx = Cardinality(SlotsBelow(p, k))
                /\ r.idx = num_keys(p) \/ U64Less(U64(k), read_key_at(p, r.idx).key)
        /\ num_keys(p) = 0 => (r.idx = 0 /\ ~r.found)

\* C29: for a slot array with strictly ascending keys, find_le(key) returns
\* (i, true) with slot[i].key = key when the key is present, and otherwise
\* (p, false) where p is the number of slots with a smaller key (the
\* smallest index whose key is greater, or num_keys); on an empty page it
\* returns (0, false).
C29_FindLe == (Usable /\ Ascending(page)) => \A k \in Probes : FindLeRight(page, k)

\* the slots hold the keys 1, 3 and 4: key 2 is absent and belongs at index
\* 1, where key 3 is
C29_Witness ==
    /\ Usable
    /\ Ascending(page)
    /\ num_keys(page) = 3
    /\ find_le_key_idx(page, U64(2), debug_assertions) = [st |-> "ok", idx |-> 1, found |-> FALSE]
    /\ find_le_key_idx(page, U64(3), debug_assertions) = [st |-> "ok", idx |-> 1, found |-> TRUE]
    /\ find_le_key_idx(page, U64(4), debug_assertions) = [st |-> "ok", idx |-> 2, found |-> TRUE]

---------------------------------------------------------------------------
(* The slot array under insert_key_at and pop_key_at *)

\* the pages p and q hold the same bytes from offset from on
SameFrom(p, q, from) ==
    \A b \in Blocks :
        \/ p[b] = q[b]
        \/ \A i \in 0..(BLOCK - 1) : OffsetOf(b, i) >= from => p[b][i] = q[b][i]

\* a slot to insert: a key above those of the caller, with an empty value
\* at free_end
FreshSlot(p) == Key(U64(MaxKey + 1), U32(0), free_end(p), 0)

\* insert_key_at(i) on p does what is said of it
SlotInsertionFrame(p, i) ==
    LET r == insert_key_at(p, FreshSlot(p), i, debug_assertions)
    IN  /\ r.st = "ok"
        /\ num_keys(r.p) = num_keys(p) + 1
        /\ free_start(r.p) = free_start(p) + KEY_SIZE
        /\ \A j \in SlotIndexes(p) :
               read_key_at(r.p, IF j < i THEN j ELSE j + 1) = read_key_at(p, j)
        /\ read_key_at(r.p, i) = FreshSlot(p)
        /\ SameFrom(p, r.p, free_end(p))

\* pop_key_at(i) on p does what is said of it
SlotRemovalFrame(p, i) ==
    LET r == pop_key_at(p, i, debug_assertions)
    IN  /\ r.st = "ok"
        /\ r.key = read_key_at(p, i)
        /\ num_keys(r.p) = num_keys(p) - 1
        /\ free_start(r.p) = free_start(p) - KEY_SIZE
        /\ \A j \in SlotIndexes(p) \ {i} :
               read_key_at(r.p, IF j < i THEN j ELSE j - 1) = read_key_at(p, j)
        /\ SameFrom(p, r.p, free_end(p))

\* C30: slot insertion at index i (i <= num_keys) leaves slots [0, i)
\* unchanged, moves each former slot j >= i to index j + 1 unchanged, stores
\* the new slot at i, and raises num_keys by 1 and free_start by 16; slot
\* removal at index i (i < num_keys) returns the former slot i, moves each
\* former slot j > i to index j - 1 unchanged, and lowers num_keys by 1 and
\* free_start by 16; neither touches any byte at or above free_end.
C30_SlotFrames ==
    (Usable /\ SlotsReadable(page))
       => /\ \A i \in 0..num_keys(page) : SlotInsertionFrame(page, i)
          /\ \A i \in SlotIndexes(page) : SlotRemovalFrame(page, i)

---------------------------------------------------------------------------
(* The sum 16 + v of the space checks *)

\* a value of length v cannot be stored in a page, whatever the page holds
LargerThanPage(v) == KEY_SIZE + v > PAGE_SIZE - HEADER_SIZE

\* the step is an insert, of a key that get does not find, of a value of a
\* length insert accepts and no page can hold
InsertOfOversizedValue ==
    /\ last'.op = "insert"
    /\ last'.len < U16_MAX
    /\ LargerThanPage(last'.len)
    /\ get(page, last'.key, debug_assertions).st = "ok"
    /\ ~get(page, last'.key, debug_assertions).found

\* C31: for every value length v accepted by insert (v < 65535), the
\* quantity 16 + v of the space checks is computed without wrapping in
\* 16-bit unsigned arithmetic; an insert of a value larger than the page
\* can hold therefore returns NotEnoughSpace with required equal to the
\* true sum 16 + v and leaves the page unchanged.
C31_RequiredSpaceNotWrapped ==
    [][InsertOfOversizedValue
          => /\ ~Overflows16(KEY_SIZE + Wrap16(last'.len))
             /\ last'.st = "ok"
             /\ last'.res = "NotEnoughSpace"
             /\ last'.required = KEY_SIZE + last'.len
             /\ page' = page]_vars

====
